---------------------------- MODULE Spec2Model ----------------------------
(***************************************************************************)
(* Noodlification of NFAs (src/src/nfa/noodlify.cc).                       *)
(*                                                                         *)
(* An NFA is a record [n, initialstates, finalstates, trans]: n states     *)
(* 0..n-1, a set of initial states, a set of final states and a set of     *)
(* transitions <<src, symbol, tgt>>.  Symbols are integers; epsilon is the *)
(* value the alphabet hands out as its next unused symbol.                 *)
(*                                                                         *)
(* Compilation of a regex bytecode program to an NFA                       *)
(* (src/src/re2parser.cc).  A program is a start pc and a list of          *)
(* instructions [opcode, out, last, lo, hi, empty].                        *)
(***************************************************************************)
EXTENDS Integers, Sequences, FiniteSets, TLC

\* ------------------------------------------------------------------ bounds
\* Longest left-hand side of an equation.
MaxLhs == 3
\* Longest word (over the input alphabet) on which languages are compared.
MaxWordLen == 3

\* ------------------------------------------------------------ NFA basics
Nfa(n, init, final, trans) ==
    [n |-> n, initialstates |-> init, finalstates |-> final, trans |-> trans]

States(aut) == 0 .. (aut.n - 1)

\* Nfa::add_new_state: the fresh state is the old number of states.
add_new_state(aut) == aut.n

Max(S) == CHOOSE x \in S : \A y \in S : y <= x
Min(S) == CHOOSE x \in S : \A y \in S : x <= y

\* States reachable from the set S along transitions of the set T.
RECURSIVE ReachFwd(_, _)
ReachFwd(T, S) ==
    LET nxt == S \cup {t[3] : t \in {u \in T : u[1] \in S}}
    IN  IF nxt = S THEN S ELSE ReachFwd(T, nxt)

\* States from which a state of S is reachable along transitions of T.
RECURSIVE ReachBwd(_, _)
ReachBwd(T, S) ==
    LET nxt == S \cup {t[1] : t \in {u \in T : u[3] \in S}}
    IN  IF nxt = S THEN S ELSE ReachBwd(T, nxt)

\* is_lang_empty: no final state is reachable from an initial state; every
\* symbol (epsilon too) is just a symbol here.
is_lang_empty(aut) ==
    ReachFwd(aut.trans, aut.initialstates) \cap aut.finalstates = {}

\* The renumbering of a set of kept states to [0, n'): by ascending old id.
Renumber(kept, s) == Cardinality({u \in kept : u < s})

\* Nfa::trim: keep the states on some path from an initial to a final state
\* and renumber them to [0, n').
trim(aut) ==
    LET useful == ReachFwd(aut.trans, aut.initialstates)
                    \cap ReachBwd(aut.trans, aut.finalstates)
    IN  Nfa(Cardinality(useful),
            {Renumber(useful, s) : s \in aut.initialstates \cap useful},
            {Renumber(useful, s) : s \in aut.finalstates \cap useful},
            {<<Renumber(useful, t[1]), t[2], Renumber(useful, t[3])>> :
                t \in {u \in aut.trans : u[1] \in useful /\ u[3] \in useful}})

\* revert: initial and final states swapped, every transition reversed.
revert(aut) ==
    Nfa(aut.n, aut.finalstates, aut.initialstates,
        {<<t[3], t[2], t[1]>> : t \in aut.trans})

\* The greatest forward simulation on aut contained in R.
RECURSIVE SimRefine(_, _)
SimRefine(aut, R) ==
    LET keep == {pq \in R :
                   \A t \in {u \in aut.trans : u[1] = pq[1]} :
                      \E v \in aut.trans :
                         /\ v[1] = pq[2]
                         /\ v[2] = t[2]
                         /\ <<t[3], v[3]>> \in R}
    IN  IF keep = R THEN R ELSE SimRefine(aut, keep)

Simulation(aut) ==
    SimRefine(aut, {pq \in States(aut) \X States(aut) :
                       pq[1] \in aut.finalstates => pq[2] \in aut.finalstates})

\* reduce: the quotient of the trimmed automaton by simulation equivalence;
\* each class is represented by its least state.
reduce(aut) ==
    LET tr   == trim(aut)
        sim  == Simulation(tr)
        rep(s) == Min({q \in States(tr) : <<s, q>> \in sim /\ <<q, s>> \in sim})
        reps == {rep(s) : s \in States(tr)}
        cls(s) == Renumber(reps, rep(s))
    IN  Nfa(Cardinality(reps),
            {cls(s) : s \in tr.initialstates},
            {cls(s) : s \in tr.finalstates},
            {<<cls(t[1]), t[2], cls(t[3])>> : t \in tr.trans})

\* ------------------------------------------------- unification, alphabet
\* Nfa::unify_initial: several initial states are replaced by one fresh
\* initial state that stands for them; with at most one initial state there
\* is nothing to unify.  The data model has no epsilon of its own (epsilon is
\* chosen only after the unification), so the fresh state's epsilon-edges to
\* the old initial states are carried out: it takes their outgoing
\* transitions, and it is final when one of them is.
unify_initial(aut) ==
    LET s   == add_new_state(aut)
        old == aut.initialstates
    IN  IF Cardinality(old) <= 1 THEN aut
        ELSE Nfa(aut.n + 1,
                 {s},
                 aut.finalstates \cup (IF old \cap aut.finalstates # {} THEN {s} ELSE {}),
                 aut.trans \cup {<<s, t[2], t[3]>> : t \in {u \in aut.trans : u[1] \in old}})

\* Nfa::unify_final: dually, several final states are replaced by one fresh
\* final state that takes their incoming transitions, and is initial when one
\* of them is.
unify_final(aut) ==
    LET s   == add_new_state(aut)
        old == aut.finalstates
    IN  IF Cardinality(old) <= 1 THEN aut
        ELSE Nfa(aut.n + 1,
                 aut.initialstates \cup (IF old \cap aut.initialstates # {} THEN {s} ELSE {}),
                 {s},
                 aut.trans \cup {<<t[1], t[2], s>> : t \in {u \in aut.trans : u[3] \in old}})

\* The symbols on the transitions of an automaton.
SymbolsOf(aut) == {t[2] : t \in aut.trans}

\* EnumAlphabet::from_nfas + add_symbols_from + get_next_value: a symbol
\* greater than every symbol of the automata scanned.
get_next_value(symbols) == IF symbols = {} THEN 0 ELSE Max(symbols) + 1

\* --------------------------------------------- epsilon-aware compositions
\* concatenate_over_epsilon: the disjoint union of lhs and rhs (rhs shifted
\* by |lhs|), initial states of lhs, final states of rhs, and an
\* epsilon-transition from every final state of lhs to every initial state
\* of rhs.
concatenate_over_epsilon(lhs, rhs, epsilon) ==
    Nfa(lhs.n + rhs.n,
        lhs.initialstates,
        {f + lhs.n : f \in rhs.finalstates},
        lhs.trans
          \cup {<<t[1] + lhs.n, t[2], t[3] + lhs.n>> : t \in rhs.trans}
          \cup {<<f, epsilon, i + lhs.n>> :
                   f \in lhs.finalstates, i \in rhs.initialstates})

\* The transitions of the product that leave the pair pq: both sides move on
\* a common symbol other than epsilon, or one side moves on epsilon and the
\* other stays.
ProductPost(lhs, rhs, epsilon, pq) ==
    LET outl == {t \in lhs.trans : t[1] = pq[1]}
        outr == {t \in rhs.trans : t[1] = pq[2]}
    IN  {<<pq, tu[1][2], <<tu[1][3], tu[2][3]>>>> :
            tu \in {x \in outl \X outr : x[1][2] = x[2][2] /\ x[1][2] # epsilon}}
          \cup {<<pq, epsilon, <<t[3], pq[2]>>>> : t \in {x \in outl : x[2] = epsilon}}
          \cup {<<pq, epsilon, <<pq[1], u[3]>>>> : u \in {y \in outr : y[2] = epsilon}}

\* The pairs reachable from the pairs of `todo`, `done` being explored already.
RECURSIVE ProductReach(_, _, _, _, _)
ProductReach(lhs, rhs, epsilon, done, todo) ==
    IF todo = {} THEN done
    ELSE LET seen == done \cup todo
             nxt  == UNION {{t[3] : t \in ProductPost(lhs, rhs, epsilon, pq)} : pq \in todo}
         IN  ProductReach(lhs, rhs, epsilon, seen, nxt \ seen)

\* intersection_over_epsilon: the product built from the initial pairs, only
\* reachable pairs materialized; a pair <<p, q>> becomes the state of its rank
\* in the lexicographic order of the reachable pairs.
intersection_over_epsilon(lhs, rhs, epsilon) ==
    LET pairs == ProductReach(lhs, rhs, epsilon, {},
                              lhs.initialstates \X rhs.initialstates)
        code(pq) == pq[1] * (rhs.n + 1) + pq[2]
        codes == {code(pq) : pq \in pairs}
        id(pq) == Renumber(codes, code(pq))
    IN  Nfa(Cardinality(pairs),
            {id(pq) : pq \in pairs \cap (lhs.initialstates \X rhs.initialstates)},
            {id(pq) : pq \in pairs \cap (lhs.finalstates \X rhs.finalstates)},
            UNION {{<<id(t[1]), t[2], id(t[3])>> :
                       t \in ProductPost(lhs, rhs, epsilon, pq)} : pq \in pairs})

\* ------------------------------------------------------------ segmentation
\* A set of transitions as a sequence, ordered by source, then target.
TransLess(t, u) == t[1] < u[1] \/ (t[1] = u[1] /\ t[3] < u[3])

RECURSIVE SortTrans(_)
SortTrans(T) ==
    IF T = {} THEN <<>>
    ELSE LET m == CHOOSE t \in T : \A u \in T \ {t} : TransLess(t, u)
         IN  <<m>> \o SortTrans(T \ {m})

\* The epsilon-transitions by depth: depth d holds the epsilon-transitions
\* whose source is reached from an initial state over d epsilon-transitions.
\* cur: the states newly reached at this depth; seen: those of lower depths.
RECURSIVE EpsilonDepths(_, _, _, _)
EpsilonDepths(aut, epsilon, seen, cur) ==
    LET plain == {t \in aut.trans : t[2] # epsilon}
        here  == ReachFwd(plain, cur) \ seen
        eps   == {t \in aut.trans : t[2] = epsilon /\ t[1] \in here}
    IN  IF eps = {} THEN <<>>
        ELSE <<SortTrans(eps)>>
               \o EpsilonDepths(aut, epsilon, seen \cup here, {t[3] : t \in eps})

get_epsilon_depths(aut, epsilon) ==
    EpsilonDepths(aut, epsilon, {}, aut.initialstates)

SeqRange(s) == {s[i] : i \in DOMAIN s}

\* Segmentation::get_untrimmed_segments: one segment more than there are
\* depths.  Segment i is the automaton without its epsilon-transitions; it
\* starts in the targets of depth i-1 (the initial states for segment 0) and
\* ends in the sources of depth i (the final states for the last segment).
get_untrimmed_segments(aut, epsilon) ==
    LET depths == get_epsilon_depths(aut, epsilon)
        k      == Len(depths)
        plain  == {t \in aut.trans : t[2] # epsilon}
    IN  [i \in 1 .. (k + 1) |->
            Nfa(aut.n,
                IF i = 1 THEN aut.initialstates
                         ELSE {t[3] : t \in SeqRange(depths[i - 1])},
                IF i = k + 1 THEN aut.finalstates
                             ELSE {t[1] : t \in SeqRange(depths[i])},
                plain)]


\* ------------------------------------------------------------ noodlify
\* get_num_of_permutations: the product of the sizes of the depths.
RECURSIVE get_num_of_permutations(_)
get_num_of_permutations(epsilon_depths) ==
    IF epsilon_depths = <<>> THEN 1
    ELSE Len(Head(epsilon_depths)) * get_num_of_permutations(Tail(epsilon_depths))

\* Mutant: temp is not divided on the way to the next depth.
RECURSIVE DecodeIndex_NoDivide(_, _, _)
DecodeIndex_NoDivide(epsilon_depths, depth, temp) ==
    IF depth > Len(epsilon_depths) THEN <<>>
    ELSE <<epsilon_depths[depth][(temp % Len(epsilon_depths[depth])) + 1]>>
           \o DecodeIndex_NoDivide(epsilon_depths, depth + 1, temp)

\* The mixed-radix decoding of `temp` from depth `depth` on: one
\* epsilon-transition of every depth.
RECURSIVE DecodeIndex(_, _, _)
DecodeIndex(epsilon_depths, depth, temp) ==
    IF depth > Len(epsilon_depths) THEN <<>>
    ELSE LET num_of_trans_at_cur_depth == Len(epsilon_depths[depth])
             computed_index == temp % num_of_trans_at_cur_depth
         IN  <<epsilon_depths[depth][computed_index + 1]>>
               \o DecodeIndex(epsilon_depths, depth + 1,
                              temp \div num_of_trans_at_cur_depth)

epsilon_noodle_of(epsilon_depths, index) == DecodeIndex(epsilon_depths, 1, index)

\* Mutant: an instance of a single state is taken for an empty one.
InstanceKept_OffByOne(instance, include_empty) == instance.n > 1 \/ include_empty

\* Mutant: an instance without states is never stored.
InstanceKept_NeverEmpty(instance, include_empty) == instance.n > 0

\* Mutant: every instance is stored.
InstanceKept_Always(instance, include_empty) == TRUE

\* An instance is stored if it has a state left after trimming, or if
\* include_empty.
InstanceKept(instance, include_empty) == instance.n > 0 \/ include_empty

\* Mutant: the instances are not trimmed.
InstanceCandidates_Untrimmed(segment, i, k, unused_state) ==
    IF i = 1
    THEN {<<<<unused_state, f>>, [segment EXCEPT !.finalstates = {f}]>> :
               f \in segment.finalstates}
    ELSE IF i = k
    THEN {<<<<q, unused_state>>, [segment EXCEPT !.initialstates = {q}]>> :
               q \in segment.initialstates}
    ELSE {<<<<qf[1], qf[2]>>,
            [segment EXCEPT !.initialstates = {qf[1]}, !.finalstates = {qf[2]}]>> :
               qf \in segment.initialstates \X segment.finalstates}

\* Mutant: an instance of a segment in between is keyed by its initial state
\* alone.
InstanceCandidates_KeyByInit(segment, i, k, unused_state) ==
    IF i = 1
    THEN {<<<<unused_state, f>>, trim([segment EXCEPT !.finalstates = {f}])>> :
               f \in segment.finalstates}
    ELSE IF i = k
    THEN {<<<<q, unused_state>>, trim([segment EXCEPT !.initialstates = {q}])>> :
               q \in segment.initialstates}
    ELSE {<<<<qf[1], qf[1]>>,
            trim([segment EXCEPT !.initialstates = {qf[1]}, !.finalstates = {qf[2]}])>> :
               qf \in segment.initialstates \X segment.finalstates}

\* Mutant: an instance of a segment in between is keyed by its final state
\* alone.
InstanceCandidates_KeyByFinal(segment, i, k, unused_state) ==
    IF i = 1
    THEN {<<<<unused_state, f>>, trim([segment EXCEPT !.finalstates = {f}])>> :
               f \in segment.finalstates}
    ELSE IF i = k
    THEN {<<<<q, unused_state>>, trim([segment EXCEPT !.initialstates = {q}])>> :
               q \in segment.initialstates}
    ELSE {<<<<qf[2], qf[2]>>,
            trim([segment EXCEPT !.initialstates = {qf[1]}, !.finalstates = {qf[2]}])>> :
               qf \in segment.initialstates \X segment.finalstates}

\* The candidates for the instances of segment `i` of `k`: <<key, automaton>>
\* for every choice of its single final state (first segment), single initial
\* state (last segment) or both (segments in between), trimmed.
InstanceCandidates(segment, i, k, unused_state) ==
    IF i = 1
    THEN {<<<<unused_state, f>>,
            trim([segment EXCEPT !.finalstates = {f}])>> :
               f \in segment.finalstates}
    ELSE IF i = k
    THEN {<<<<q, unused_state>>,
            trim([segment EXCEPT !.initialstates = {q}])>> :
               q \in segment.initialstates}
    ELSE {<<<<qf[1], qf[2]>>,
            trim([segment EXCEPT !.initialstates = {qf[1]},
                                 !.finalstates = {qf[2]}])>> :
               qf \in segment.initialstates \X segment.finalstates}

\* Mutant: the first segment keeps all its final states in every instance.
SegmentInstances_AllFinals(segment, i, k, unused_state, include_empty) ==
    {e \in (IF i = 1
            THEN {<<<<unused_state, f>>, trim(segment)>> : f \in segment.finalstates}
            ELSE InstanceCandidates(segment, i, k, unused_state)) :
        InstanceKept(e[2], include_empty)}

\* Mutant: the last segment keeps all its initial states in every instance.
SegmentInstances_AllInitials(segment, i, k, unused_state, include_empty) ==
    {e \in (IF i = k
            THEN {<<<<q, unused_state>>, trim(segment)>> : q \in segment.initialstates}
            ELSE InstanceCandidates(segment, i, k, unused_state)) :
        InstanceKept(e[2], include_empty)}

\* The instances of segment `i` of `k` that are stored.
SegmentInstances(segment, i, k, unused_state, include_empty) ==
    {e \in InstanceCandidates(segment, i, k, unused_state) :
        InstanceKept(e[2], include_empty)}

\* The map segments_one_initial_final after segments 1..i are handled; an
\* entry stored later replaces an entry of the same key.
RECURSIVE SegmentsOneInitialFinal(_, _, _, _)
SegmentsOneInitialFinal(segments, i, unused_state, include_empty) ==
    IF i = 0 THEN <<>>
    ELSE LET before == SegmentsOneInitialFinal(segments, i - 1, unused_state, include_empty)
             now    == SegmentInstances(segments[i], i, Len(segments),
                                        unused_state, include_empty)
             keys   == {e[1] : e \in now}
         IN  [key \in DOMAIN before \cup keys |->
                 IF key \in keys THEN (CHOOSE e \in now : e[1] = key)[2]
                                 ELSE before[key]]

\* The keys one combination of epsilon-transitions looks up, in segment
\* order: the first segment up to the first transition's source, a segment
\* between two transitions, the last segment from the last one's target.
NoodleKeys(epsilon_noodle, unused_state) ==
    LET k == Len(epsilon_noodle)
    IN  [i \in 1 .. (k + 1) |->
            <<IF i = 1 THEN unused_state ELSE epsilon_noodle[i - 1][3],
              IF i = k + 1 THEN unused_state ELSE epsilon_noodle[i][1]>>]

\* The noodles of the combinations index .. num_of_permutations-1, in order:
\* a combination with a key that is not in the map contributes nothing.
RECURSIVE NoodlesFrom(_, _, _, _)
NoodlesFrom(memo, epsilon_depths, unused_state, index) ==
    IF index >= get_num_of_permutations(epsilon_depths) THEN <<>>
    ELSE LET keys == NoodleKeys(epsilon_noodle_of(epsilon_depths, index), unused_state)
             rest == NoodlesFrom(memo, epsilon_depths, unused_state, index + 1)
         IN  IF \A i \in DOMAIN keys : keys[i] \in DOMAIN memo
             THEN <<[i \in DOMAIN keys |-> memo[keys[i]]]>> \o rest
             ELSE rest

\* Mutant: a single segment without states is dropped, include_empty or not.
SingleSegmentNoodles_IgnoreIncludeEmpty(segment0, include_empty) ==
    LET segment == trim(segment0)
    IN  IF segment.n > 0 THEN << <<segment>> >> ELSE <<>>

\* The result for a segmentation of one segment: the segment trimmed, as the
\* only noodle, if it has a state or include_empty; no noodle otherwise.
SingleSegmentNoodles(segment0, include_empty) ==
    LET segment == trim(segment0)
    IN  IF segment.n > 0 \/ include_empty THEN << <<segment>> >> ELSE <<>>

\* SegNfa::noodlify.
noodlify(aut, epsilon, include_empty) ==
    LET segments == get_untrimmed_segments(aut, epsilon)
    IN  IF Len(segments) = 1
        THEN SingleSegmentNoodles(segments[1], include_empty)
        ELSE LET unused_state == aut.n
                 memo == SegmentsOneInitialFinal(segments, Len(segments),
                                                 unused_state, include_empty)
             IN  NoodlesFrom(memo, get_epsilon_depths(aut, epsilon), unused_state, 0)

\* The order of std::pair<State, State> keys.
KeyBefore(k1, k2) == k1[1] < k2[1] \/ (k1[1] = k2[1] /\ k1[2] < k2[2])

\* The instances one segment's loops allocate, in the order of the loops
\* (ascending initial state, then ascending final state).
RECURSIVE BuiltOfSegment(_, _)
BuiltOfSegment(candidates, i) ==
    IF candidates = {} THEN <<>>
    ELSE LET e == CHOOSE c \in candidates :
                      \A d \in candidates : d[1] = c[1] \/ KeyBefore(c[1], d[1])
         IN  <<[segment |-> i, key |-> e[1], aut |-> e[2]]>>
                \o BuiltOfSegment(candidates \ {e}, i)

\* Every instance std::make_shared allocates in one call, in allocation
\* order; the position in this sequence stands for the instance's address.
RECURSIVE BuiltInstances(_, _, _)
BuiltInstances(segments, i, unused_state) ==
    IF i = 0 THEN <<>>
    ELSE BuiltInstances(segments, i - 1, unused_state)
            \o BuiltOfSegment(InstanceCandidates(segments[i], i, Len(segments),
                                                 unused_state), i)

\* The address the map holds for `key` when the loops are over: that of the
\* last instance stored under it, 0 if there is none.
StoredAddress(built, key, include_empty) ==
    LET stored == {j \in DOMAIN built :
                      built[j].key = key /\ InstanceKept(built[j].aut, include_empty)}
    IN  IF stored = {} THEN 0 ELSE CHOOSE j \in stored : \A l \in stored : l <= j

\* The noodles as sequences of the handles pushed: for every combination all
\* of whose keys are in the map, the key and the address of every entry.
NoodleHandles(built, epsilon_depths, unused_state, include_empty) ==
    LET handles(index) ==
            LET keys == NoodleKeys(epsilon_noodle_of(epsilon_depths, index), unused_state)
            IN  [i \in DOMAIN keys |->
                    [key |-> keys[i],
                     address |-> StoredAddress(built, keys[i], include_empty)]]
        all == [j \in 1 .. get_num_of_permutations(epsilon_depths) |-> handles(j - 1)]
    IN  SelectSeq(all, LAMBDA h : \A i \in DOMAIN h : h[i].address > 0)


\* ------------------------------------------------------------------ inputs
\* The input alphabet: 'a' and 'b'.
Sigma == {97, 98}

\* Left-hand automata: a, b, a*, and a|b with two initial and two final
\* states.
LhsAuts ==
    { Nfa(2, {0}, {1}, {<<0, 97, 1>>}),
      Nfa(2, {0}, {1}, {<<0, 98, 1>>}),
      Nfa(1, {0}, {0}, {<<0, 97, 0>>}),
      Nfa(4, {0, 1}, {2, 3}, {<<0, 97, 2>>, <<1, 98, 3>>}) }

\* Right-hand automata: ab, ba, aaa, {aa, bb}, a with two equal final states,
\* an automaton with no final state, (a|b)a with two states of equal future,
\* a(a|b) with two states of equal past.
RhsAuts ==
    { Nfa(3, {0}, {2}, {<<0, 97, 1>>, <<1, 98, 2>>}),
      Nfa(3, {0}, {2}, {<<0, 98, 1>>, <<1, 97, 2>>}),
      Nfa(4, {0}, {3}, {<<0, 97, 1>>, <<1, 97, 2>>, <<2, 97, 3>>}),
      Nfa(4, {0}, {3}, {<<0, 97, 1>>, <<0, 98, 2>>, <<1, 97, 3>>, <<2, 98, 3>>}),
      Nfa(3, {0}, {1, 2}, {<<0, 97, 1>>, <<0, 97, 2>>}),
      Nfa(2, {0}, {}, {<<0, 97, 1>>}),
      Nfa(4, {0}, {3}, {<<0, 97, 1>>, <<0, 98, 2>>, <<1, 97, 3>>, <<2, 97, 3>>}),
      Nfa(4, {0}, {3}, {<<0, 97, 1>>, <<0, 97, 2>>, <<1, 97, 3>>, <<2, 98, 3>>}) }

LhsSeqs == UNION {[1 .. m -> LhsAuts] : m \in 0 .. MaxLhs}

\* params: no key at all, or the key "reduce" with a value.
NoParams == [key \in {} |-> ""]
ParamsSet ==
    {NoParams} \cup {[reduce |-> v] : v \in {"forward", "backward", "bidirectional", "other"}}

haskey(params, key) == key \in DOMAIN params

\* ------------------------------------------------------------------- state
VARIABLES
    pc,                      \* where the call stands
    overload,                \* "ref": AutRefSequence, "ptr": AutPtrSequence
    left_automata,           \* the caller's left-hand automata, as they are now
    caller_left,             \* the left-hand automata as they were at the call
    right_automaton,
    include_empty,
    params,
    epsilon,
    concatenated_left_side,
    product_pres_eps_trans,
    trimmed_product,         \* the product as trimmed, before any reduction
    noodles                  \* the NoodleSequence returned

\* The state of RegexParser::convert_pro_to_nfa.
VARIABLES
    rpc,                     \* where the conversion stands
    prog,                    \* the program converted
    use_epsilon,
    epsilon_value,
    state_cache,             \* state_mapping, is_final_state, is_state_nop_or_cap,
                             \* is_last, has_state_incoming_edge
    explicit_nfa,            \* the NFA over program counters
    copyEdgesFromTo,         \* the queued <<first, second>> pairs
    copy_pos,                \* the pair the back-propagation handles next
    outgoingEdges,           \* per state, the <<symbol, target>> pairs saved
    current_state,           \* the program counter the sweep is at
    output_nfa               \* the renumbered NFA handed to the caller

noodle_vars == <<pc, overload, left_automata, caller_left, right_automaton, include_empty,
                 params, epsilon, concatenated_left_side, product_pres_eps_trans,
                 trimmed_product, noodles>>

regex_vars == <<rpc, prog, use_epsilon, epsilon_value, state_cache, explicit_nfa,
                copyEdgesFromTo, copy_pos, outgoingEdges, current_state, output_nfa>>

\* The locals of RegexParser::get_mapped_states, for one call of it.
VARIABLES
    mapped_for,              \* the state the call is for
    mapped_stack,            \* statesToCheck, its top last
    mapped_checked,          \* checkedStates
    mapped_result,           \* mappedStates
    mapped_marks             \* the states whose is_last the call has set

mapped_vars == <<mapped_for, mapped_stack, mapped_checked, mapped_result, mapped_marks>>

vars == <<noodle_vars, regex_vars, mapped_vars>>

EmptyNfa == Nfa(0, {}, {}, {})

\* No conversion is going on.
RegexIdle ==
    /\ rpc = "idle"
    /\ prog = [start |-> 0, insts |-> <<>>]
    /\ use_epsilon = FALSE
    /\ epsilon_value = 0
    /\ state_cache = <<>>
    /\ explicit_nfa = EmptyNfa
    /\ copyEdgesFromTo = <<>>
    /\ copy_pos = 0
    /\ outgoingEdges = <<>>
    /\ current_state = 0
    /\ output_nfa = EmptyNfa

\* No call of get_mapped_states is going on.
MappedIdle ==
    /\ mapped_for = 0
    /\ mapped_stack = <<>>
    /\ mapped_checked = {}
    /\ mapped_result = <<>>
    /\ mapped_marks = {}

Init ==
    /\ pc = "call"
    /\ overload \in {"ref", "ptr"}
    /\ left_automata \in LhsSeqs
    /\ caller_left = left_automata
    /\ right_automaton \in RhsAuts
    /\ include_empty \in BOOLEAN
    /\ params \in ParamsSet
    /\ epsilon = 0
    /\ concatenated_left_side = EmptyNfa
    /\ product_pres_eps_trans = EmptyNfa
    /\ trimmed_product = EmptyNfa
    /\ noodles = <<>>
    /\ RegexIdle
    /\ MappedIdle

Unified(auts) == [i \in DOMAIN auts |-> unify_final(unify_initial(auts[i]))]

\* noodlify_for_equation(AutRefSequence): every left automaton is unified,
\* in place, before anything else.
UnifyRef ==
    /\ pc = "call" /\ overload = "ref"
    /\ left_automata' = Unified(left_automata)
    /\ pc' = "check"
    /\ UNCHANGED <<mapped_vars, regex_vars,
                   overload, caller_left, right_automaton, include_empty, params, epsilon,
                   concatenated_left_side, product_pres_eps_trans, trimmed_product, noodles>>

\* The reduce value the pointer overload reads: empty when there is no key.
PtrReduceValue(p) == IF haskey(p, "reduce") THEN p["reduce"] ELSE ""

\* noodlify_for_equation(AutPtrSequence): the left automata are unified, in
\* place, only for a recognized reduce value.
UnifyPtr ==
    /\ pc = "call" /\ overload = "ptr"
    /\ left_automata' =
          IF PtrReduceValue(params) \in {"forward", "backward", "bidirectional"}
          THEN Unified(left_automata) ELSE left_automata
    /\ pc' = "check"
    /\ UNCHANGED <<mapped_vars, regex_vars,
                   overload, caller_left, right_automaton, include_empty, params, epsilon,
                   concatenated_left_side, product_pres_eps_trans, trimmed_product, noodles>>

\* Mutant: the language of the right side is not looked at.
FailFastCondition_NoRhsCheck == left_automata = <<>>

FailFastCondition == left_automata = <<>> \/ is_lang_empty(right_automaton)

\* An empty left side or a right side of empty language: the empty sequence.
FailFast ==
    /\ pc = "check"
    /\ FailFastCondition
    /\ noodles' = <<>>
    /\ pc' = "done"
    /\ UNCHANGED <<mapped_vars, regex_vars,
                   overload, left_automata, caller_left, right_automaton, include_empty,
                   params, epsilon, concatenated_left_side, product_pres_eps_trans,
                   trimmed_product>>

\* The left automata from the i-th on, concatenated to acc over epsilon.
RECURSIVE ConcatFrom(_, _, _, _)
ConcatFrom(auts, i, acc, eps) ==
    IF i > Len(auts) THEN acc
    ELSE ConcatFrom(auts, i + 1, concatenate_over_epsilon(acc, auts[i], eps), eps)

AlphabetSymbols(auts, rhs) ==
    UNION {SymbolsOf(auts[i]) : i \in DOMAIN auts} \cup SymbolsOf(rhs)

\* The alphabet of both sides, its next value as epsilon, and the left side
\* concatenated over epsilon.
Concatenate ==
    /\ pc = "check"
    /\ ~FailFastCondition
    /\ LET eps == get_next_value(AlphabetSymbols(left_automata, right_automaton))
       IN  /\ epsilon' = eps
           /\ concatenated_left_side' = ConcatFrom(left_automata, 2, left_automata[1], eps)
    /\ pc' = "concatenated"
    /\ UNCHANGED <<mapped_vars, regex_vars,
                   overload, left_automata, caller_left, right_automaton, include_empty,
                   params, product_pres_eps_trans, trimmed_product, noodles>>

\* The product with the right side, preserving epsilon, trimmed.
Intersect ==
    /\ pc = "concatenated"
    /\ product_pres_eps_trans' =
          trim(intersection_over_epsilon(concatenated_left_side, right_automaton, epsilon))
    /\ trimmed_product' = product_pres_eps_trans'
    /\ pc' = "product"
    /\ UNCHANGED <<mapped_vars, regex_vars,
                   overload, left_automata, caller_left, right_automaton, include_empty,
                   params, epsilon, concatenated_left_side, noodles>>

\* Mutant: the product is never found empty.
ProductIsEmpty_Never == FALSE

ProductIsEmpty == is_lang_empty(product_pres_eps_trans)

\* A product of empty language: the empty sequence.
EmptyProduct ==
    /\ pc = "product"
    /\ ProductIsEmpty
    /\ noodles' = <<>>
    /\ pc' = "done"
    /\ UNCHANGED <<mapped_vars, regex_vars,
                   overload, left_automata, caller_left, right_automaton, include_empty,
                   params, epsilon, concatenated_left_side, product_pres_eps_trans,
                   trimmed_product>>

\* Mutant: "bidirectional" does not reduce forward.
ForwardStep_OnlyForward(reduce_value, aut) ==
    IF reduce_value = "forward" THEN reduce(aut) ELSE aut

\* The reductions params["reduce"] asks for: forward first, backward second.
ForwardStep(reduce_value, aut) ==
    IF reduce_value = "forward" \/ reduce_value = "bidirectional"
    THEN reduce(aut) ELSE aut

BackwardStep(reduce_value, aut) ==
    IF reduce_value = "backward" \/ reduce_value = "bidirectional"
    THEN revert(reduce(revert(aut))) ELSE aut

\* Mutant: both reductions are applied whatever params holds.
ApplyReductions_Always(p, aut) ==
    BackwardStep("bidirectional", ForwardStep("bidirectional", aut))

ApplyReductions(p, aut) ==
    IF haskey(p, "reduce")
    THEN BackwardStep(p["reduce"], ForwardStep(p["reduce"], aut))
    ELSE aut

Reduce ==
    /\ pc = "product"
    /\ ~ProductIsEmpty
    /\ product_pres_eps_trans' = ApplyReductions(params, product_pres_eps_trans)
    /\ pc' = "reduced"
    /\ UNCHANGED <<mapped_vars, regex_vars,
                   overload, left_automata, caller_left, right_automaton, include_empty,
                   params, epsilon, concatenated_left_side, trimmed_product, noodles>>

\* return noodlify(product_pres_eps_trans, epsilon, include_empty).
Noodlify ==
    /\ pc = "reduced"
    /\ noodles' = noodlify(product_pres_eps_trans, epsilon, include_empty)
    /\ pc' = "done"
    /\ UNCHANGED <<mapped_vars, regex_vars,
                   overload, left_automata, caller_left, right_automaton, include_empty,
                   params, epsilon, concatenated_left_side, product_pres_eps_trans,
                   trimmed_product>>

Next ==
    \/ UnifyRef
    \/ UnifyPtr
    \/ FailFast
    \/ Concatenate
    \/ Intersect
    \/ EmptyProduct
    \/ Reduce
    \/ Noodlify

Spec == Init /\ [][Next]_vars

\* ------------------------------------------------- noodlify called directly
\* Longest sequence of automata concatenated for a direct call of noodlify.
MaxSegments == 3

\* a; a|b with two initial and two final states; a*; a with a second initial
\* state that reaches no final state; b with a second final state that is not
\* reachable; an automaton with no final state.
DirectAuts ==
    { Nfa(2, {0}, {1}, {<<0, 97, 1>>}),
      Nfa(4, {0, 1}, {2, 3}, {<<0, 97, 2>>, <<1, 98, 3>>}),
      Nfa(1, {0}, {0}, {<<0, 97, 0>>}),
      Nfa(3, {0, 2}, {1}, {<<0, 97, 1>>}),
      Nfa(3, {0}, {1, 2}, {<<0, 98, 1>>}),
      Nfa(2, {0}, {}, {<<0, 97, 1>>}) }

DirectSeqs == UNION {[1 .. m -> DirectAuts] : m \in 1 .. MaxSegments}

\* A caller that concatenates automata over a fresh epsilon and calls noodlify
\* on the result.
InitDirect ==
    /\ pc = "direct"
    /\ overload = "none"
    /\ left_automata \in DirectSeqs
    /\ caller_left = left_automata
    /\ right_automaton = EmptyNfa
    /\ include_empty \in BOOLEAN
    /\ params = NoParams
    /\ epsilon = 0
    /\ concatenated_left_side = EmptyNfa
    /\ product_pres_eps_trans = EmptyNfa
    /\ trimmed_product = EmptyNfa
    /\ noodles = <<>>
    /\ RegexIdle
    /\ MappedIdle

DirectConcatenate ==
    /\ pc = "direct"
    /\ LET eps == get_next_value(AlphabetSymbols(left_automata, right_automaton))
           aut == ConcatFrom(left_automata, 2, left_automata[1], eps)
       IN  /\ epsilon' = eps
           /\ concatenated_left_side' = aut
           /\ product_pres_eps_trans' = aut
    /\ pc' = "reduced"
    /\ UNCHANGED <<mapped_vars, regex_vars,
                   overload, left_automata, caller_left, right_automaton, include_empty,
                   params, trimmed_product, noodles>>

NextDirect ==
    \/ DirectConcatenate
    \/ Noodlify

SpecDirect == InitDirect /\ [][NextDirect]_vars

\* ------------------------------------------------------ regex programs
\* One instruction of a program: its opcode, its out target, its last flag,
\* the byte range of a ByteRange and the flags of an EmptyWidth.
Inst(opcode, out, last, lo, hi, empty) ==
    [opcode |-> opcode, out |-> out, last |-> last, lo |-> lo, hi |-> hi, empty |-> empty]

ByteRange(lo, hi, out, last) == Inst("kInstByteRange", out, last, lo, hi, {})
Match(last) == Inst("kInstMatch", 0, last, 0, 0, {})
NopTo(out, last) == Inst("kInstNop", out, last, 0, 0, {})
CaptureTo(out, last) == Inst("kInstCapture", out, last, 0, 0, {})
EmptyWidth(empty, out, last) == Inst("kInstEmptyWidth", out, last, 0, 0, empty)
Fail == Inst("kInstFail", 0, TRUE, 0, 0, {})

\* prog->size(), prog->inst(pc): program counters start at 0.
prog_size(p) == Len(p.insts)
inst(p, state) == p.insts[state + 1]

IsNopOrCapture(opcode) == opcode = "kInstCapture" \/ opcode = "kInstNop"

\* A vector of n elements, all x, indexed from 0.
Vec(n, x) == [s \in 0 .. (n - 1) |-> x]

\* --------------------------------------------------- get_mapped_states
\* The loop of get_mapped_states: the state on top of statesToCheck is
\* checked and popped.  A last state that is neither Nop nor Capture is
\* mapped.  Otherwise the next state (for a state that is not last) and the
\* out state (when it is a Nop or a Capture) are pushed if unchecked, and an
\* out state that is neither is mapped.  lastMarks: the states whose is_last
\* the loop sets on the way.
RECURSIVE MappedStatesLoop(_, _, _, _, _)
MappedStatesLoop(p, statesToCheck, checkedStates, mappedStates, lastMarks) ==
    IF statesToCheck = <<>>
    THEN [mappedStates |-> mappedStates, lastMarks |-> lastMarks]
    ELSE LET state   == statesToCheck[Len(statesToCheck)]
             i       == inst(p, state)
             checked == checkedStates \cup {state}
             popped  == SubSeq(statesToCheck, 1, Len(statesToCheck) - 1)
         IN  IF i.last /\ ~IsNopOrCapture(i.opcode)
             THEN MappedStatesLoop(p, popped, checked, Append(mappedStates, state), lastMarks)
             ELSE LET withNext ==
                          IF ~i.last /\ (state + 1) \notin checked
                          THEN Append(popped, state + 1) ELSE popped
                      marks ==
                          IF ~i.last /\ inst(p, state + 1).last
                          THEN lastMarks \cup {state + 1} ELSE lastMarks
                      outIsEps == IsNopOrCapture(inst(p, i.out).opcode)
                      withOut ==
                          IF outIsEps /\ i.out \notin checked
                          THEN Append(withNext, i.out) ELSE withNext
                      mapped ==
                          IF outIsEps THEN mappedStates ELSE Append(mappedStates, i.out)
                  IN  MappedStatesLoop(p, withOut, checked, mapped, marks)

get_mapped_states(p, state) == MappedStatesLoop(p, <<state>>, {}, <<>>, {})

\* --------------------------------------------------------- state cache
\* create_state_cache_with_epsilon: every state maps to itself and has an
\* incoming edge; Match states are final.
create_state_cache_with_epsilon(p) ==
    LET n == prog_size(p)
    IN  [state_mapping           |-> [s \in 0 .. (n - 1) |-> <<s>>],
         is_final_state          |-> [s \in 0 .. (n - 1) |-> inst(p, s).opcode = "kInstMatch"],
         is_state_nop_or_cap     |-> Vec(n, FALSE),
         is_last                 |-> [s \in 0 .. (n - 1) |-> inst(p, s).last],
         has_state_incoming_edge |-> Vec(n, TRUE)]

\* One turn of the loop of create_state_cache_without_epsilon, for `state`.
\* c: the cache with the loop's tmp_state_mapping and append_to_state.
CacheStep(p, state, c) ==
    LET i  == inst(p, state)
        c1 == IF i.last THEN [c EXCEPT !.is_last[state] = TRUE] ELSE c
    IN  IF IsNopOrCapture(i.opcode)
        THEN LET got == get_mapped_states(p, state)
                 mapped_parget_state == c1.tmp_state_mapping[i.out]
                 c2 == [c1 EXCEPT
                          !.state_mapping[state] = got.mappedStates,
                          !.is_last = [s \in DOMAIN @ |-> @[s] \/ s \in got.lastMarks],
                          !.is_state_nop_or_cap[state] = TRUE,
                          !.tmp_state_mapping[state] = mapped_parget_state]
             IN  IF c.append_to_state # -1
                 THEN [c2 EXCEPT
                         !.has_state_incoming_edge[mapped_parget_state] =
                             @ \/ c2.has_state_incoming_edge[state],
                         !.tmp_state_mapping[c.append_to_state] = mapped_parget_state]
                 ELSE [c2 EXCEPT !.append_to_state = state]
        ELSE IF i.opcode = "kInstMatch"
        THEN [c1 EXCEPT !.is_final_state[state] = TRUE, !.append_to_state = -1]
        ELSE [c1 EXCEPT !.has_state_incoming_edge[i.out] = TRUE, !.append_to_state = -1]

RECURSIVE CacheLoop(_, _, _)
CacheLoop(p, state, c) ==
    IF state >= prog_size(p) THEN c
    ELSE CacheLoop(p, state + 1, CacheStep(p, state, c))

\* create_state_cache_without_epsilon: the loop runs from the start state on;
\* a state below it keeps the initial values.
create_state_cache_without_epsilon(p) ==
    LET n == prog_size(p)
        c == CacheLoop(p, p.start,
                       [state_mapping           |-> [s \in 0 .. (n - 1) |-> <<s>>],
                        is_final_state          |-> Vec(n, FALSE),
                        is_state_nop_or_cap     |-> Vec(n, FALSE),
                        is_last                 |-> Vec(n, FALSE),
                        has_state_incoming_edge |-> Vec(n, FALSE),
                        tmp_state_mapping       |-> [s \in 0 .. (n - 1) |-> s],
                        append_to_state         |-> -1])
    IN  [state_mapping           |-> c.state_mapping,
         is_final_state          |-> c.is_final_state,
         is_state_nop_or_cap     |-> c.is_state_nop_or_cap,
         is_last                 |-> c.is_last,
         has_state_incoming_edge |-> c.has_state_incoming_edge]

create_state_cache(p, eps) ==
    IF eps THEN create_state_cache_with_epsilon(p)
           ELSE create_state_cache_without_epsilon(p)

\* ------------------------------------------------- convert_pro_to_nfa
\* The value a state of renumber_states holds until it gets its new id: the
\* -1 the vector of unsigned long is filled with.
NotRenumbered == -1

\* make_state_final: the states mapped to `state` that have an incoming edge
\* become final.
make_state_final(state, nfa, cache) ==
    [nfa EXCEPT !.finalstates =
        @ \cup {t \in SeqRange(cache.state_mapping[state]) :
                   cache.has_state_incoming_edge[t]}]

\* The symbols an EmptyWidth instruction pushes, in the order of the tests.
EmptyWidthSymbols(empty) ==
    (IF "kEmptyBeginLine" \in empty THEN <<300>> ELSE <<>>)
      \o (IF "kEmptyEndLine" \in empty THEN <<10>> ELSE <<>>)
      \o (IF "kEmptyBeginText" \in empty THEN <<301>> ELSE <<>>)
      \o (IF "kEmptyEndText" \in empty THEN <<302>> ELSE <<>>)
      \o (IF "kEmptyWordBoundary" \in empty THEN <<303>> ELSE <<>>)
      \o (IF "kEmptyNonWordBoundary" \in empty THEN <<304>> ELSE <<>>)

\* The symbols lo, lo + 1, ..., hi.
RangeSymbols(lo, hi) == [j \in 1 .. (hi - lo + 1) |-> lo + j - 1]

\* The symbols on the transitions of an instruction: epsilon for a Nop or a
\* Capture, the flags' symbols for an EmptyWidth, and the byte range for a
\* ByteRange and for an EmptyWidth that pushed nothing.
SymbolsOfInst(i, eps_value) ==
    IF IsNopOrCapture(i.opcode) THEN <<eps_value>>
    ELSE LET symbols == IF i.opcode = "kInstEmptyWidth"
                        THEN EmptyWidthSymbols(i.empty) ELSE <<>>
         IN  IF symbols = <<>> THEN RangeSymbols(i.lo, i.hi) ELSE symbols

\* The pairs <<mappedState, mappedTargetState>> in the order of the two loops.
MappedPairs(from, to) ==
    [k \in 1 .. (Len(from) * Len(to)) |->
        <<from[((k - 1) \div Len(to)) + 1], to[((k - 1) % Len(to)) + 1]>>]

\* The loops of create_explicit_nfa_transitions from the k-th pair on.  acc:
\* outgoingEdges, has_state_incoming_edge and the transitions of the NFA.
RECURSIVE TransitionsLoop(_, _, _, _, _)
TransitionsLoop(pairs, k, symbols, eps, acc) ==
    IF k > Len(pairs) THEN acc
    ELSE LET mappedState       == pairs[k][1]
             mappedTargetState == pairs[k][2]
             emit == acc.has_state_incoming_edge[mappedState] /\ symbols # <<>>
         IN  TransitionsLoop(pairs, k + 1, symbols, eps,
                [outgoingEdges |->
                    IF eps THEN acc.outgoingEdges
                    ELSE [acc.outgoingEdges EXCEPT ![mappedState] =
                             @ \o [j \in DOMAIN symbols |-> <<symbols[j], mappedTargetState>>]],
                 has_state_incoming_edge |->
                    IF emit
                    THEN [acc.has_state_incoming_edge EXCEPT ![mappedTargetState] = TRUE]
                    ELSE acc.has_state_incoming_edge,
                 trans |->
                    IF emit
                    THEN acc.trans \cup {<<mappedState, symbols[j], mappedTargetState>> :
                                            j \in DOMAIN symbols}
                    ELSE acc.trans])

\* create_explicit_nfa_transitions: a transition from every state mapped to
\* currentState that has an incoming edge to every state mapped to the out
\* state, for every symbol; with epsilon, the edge to the next state too.
create_explicit_nfa_transitions(currentState, i, symbols, acc, cache, eps, eps_value) ==
    LET done == TransitionsLoop(MappedPairs(cache.state_mapping[currentState],
                                            cache.state_mapping[i.out]),
                                1, symbols, eps, acc)
    IN  IF eps /\ ~cache.is_last[currentState]
        THEN [done EXCEPT !.trans = @ \cup {<<currentState, eps_value, currentState + 1>>}]
        ELSE done

\* Does the sweep call create_explicit_nfa_transitions for this opcode?
EmitsTransitions(opcode, eps) ==
    \/ opcode = "kInstByteRange"
    \/ opcode = "kInstEmptyWidth"
    \/ (IsNopOrCapture(opcode) /\ eps)

\* The pairs the sweep queues for a ByteRange or EmptyWidth state that is not
\* last: <<state, current_state>> for every state mapped to the next one.
QueuedPairs(cur, i, cache, eps) ==
    IF ~eps /\ i.opcode \in {"kInstByteRange", "kInstEmptyWidth"} /\ ~cache.is_last[cur]
    THEN [j \in DOMAIN cache.state_mapping[cur + 1] |->
             <<cache.state_mapping[cur + 1][j], cur>>]
    ELSE <<>>

\* The pairs queued before the sweep, for a start state that is a Nop or a
\* Capture and is not last: the states mapped to the second, third, ... state
\* of its mapping are copied to the first.
RECURSIVE StartPairs(_, _, _)
StartPairs(cache, start_state, index) ==
    LET mapping == cache.state_mapping[start_state]
    IN  IF index > Len(mapping) THEN <<>>
        ELSE [j \in DOMAIN cache.state_mapping[mapping[index]] |->
                 <<cache.state_mapping[mapping[index]][j], mapping[1]>>]
               \o StartPairs(cache, start_state, index + 1)

\* A set of numbers in ascending order.
RECURSIVE SortSet(_)
SortSet(S) == IF S = {} THEN <<>> ELSE <<Min(S)>> \o SortSet(S \ {Min(S)})

\* The transitions in the order renumber_states walks them: by source state,
\* then by symbol, then by target.
TransBefore(t, u) ==
    \/ t[1] < u[1]
    \/ (t[1] = u[1] /\ t[2] < u[2])
    \/ (t[1] = u[1] /\ t[2] = u[2] /\ t[3] < u[3])

RECURSIVE SortTransitions(_)
SortTransitions(T) ==
    IF T = {} THEN <<>>
    ELSE LET m == CHOOSE t \in T : \A u \in T \ {t} : TransBefore(t, u)
         IN  <<m>> \o SortTransitions(T \ {m})

\* `order` with the states of `states` it does not hold yet, in their order.
RECURSIVE AppendNew(_, _)
AppendNew(order, states) ==
    IF states = <<>> THEN order
    ELSE AppendNew(IF Head(states) \in SeqRange(order) THEN order
                   ELSE Append(order, Head(states)),
                   Tail(states))

\* The states in the order renumber_states gives them their new ids: first
\* the states with an outgoing transition, then the final states, then the
\* targets of the transitions.
RenumberOrder(program_size, input_nfa) ==
    LET used    == {s \in 0 .. (program_size - 1) : \E t \in input_nfa.trans : t[1] = s}
        sorted  == SortTransitions(input_nfa.trans)
        targets == [j \in DOMAIN sorted |-> sorted[j][3]]
    IN  AppendNew(AppendNew(SortSet(used), SortSet(input_nfa.finalstates)), targets)

\* renumbered_states[state].
Renumbered(order, state) ==
    IF state \in SeqRange(order)
    THEN (CHOOSE j \in DOMAIN order : order[j] = state) - 1
    ELSE NotRenumbered

\* renumber_states: the NFA over the new ids; an initial state gets the value
\* the vector holds for it, new id or not.
renumber_states(program_size, input_nfa) ==
    LET order == RenumberOrder(program_size, input_nfa)
    IN  Nfa(Len(order),
            {Renumbered(order, s) : s \in input_nfa.initialstates},
            {Renumbered(order, s) : s \in input_nfa.finalstates},
            {<<Renumbered(order, t[1]), t[2], Renumbered(order, t[3])>> :
                t \in input_nfa.trans})

\* ------------------------------------------------------ regex inputs
\* The instructions a program of an unanchored regex starts with: the Fail
\* instruction and the loop that skips a prefix of the text (its byte range
\* cut down to the letters a .. d).  The regex proper starts at pc 3.
UnanchoredPrefix == <<Fail, NopTo(3, FALSE), ByteRange(97, 100, 1, TRUE)>>

Unanchored(body) == [start |-> 3, insts |-> UnanchoredPrefix \o body]

\* Programs in the form the regex front end emits them: lists of instructions,
\* each list ended by an instruction that is last.  In the order below:
\* a, ab, a+, a+?, a*, a*?, a?, a|c, (a), a[b-c]*d, a(b|c)*d, (a)|b,
\* (a)|b|cd, (a)*, a\b, the empty regex, the regex that matches nothing,
\* b|a+, a line feed, and (?m)^a$.
Progs ==
    { Unanchored(<<ByteRange(97, 97, 4, TRUE), Match(TRUE)>>),
      Unanchored(<<ByteRange(97, 97, 4, TRUE), ByteRange(98, 98, 5, TRUE), Match(TRUE)>>),
      Unanchored(<<ByteRange(97, 97, 4, TRUE), NopTo(3, FALSE), Match(TRUE)>>),
      Unanchored(<<ByteRange(97, 97, 4, TRUE), Match(FALSE), NopTo(3, TRUE)>>),
      Unanchored(<<ByteRange(97, 97, 3, FALSE), Match(TRUE)>>),
      Unanchored(<<Match(FALSE), ByteRange(97, 97, 3, TRUE)>>),
      Unanchored(<<ByteRange(97, 97, 5, FALSE), NopTo(5, TRUE), Match(TRUE)>>),
      Unanchored(<<ByteRange(97, 97, 5, FALSE), ByteRange(99, 99, 5, TRUE), Match(TRUE)>>),
      Unanchored(<<CaptureTo(4, TRUE), ByteRange(97, 97, 5, TRUE), CaptureTo(6, TRUE),
                   Match(TRUE)>>),
      Unanchored(<<ByteRange(97, 97, 4, TRUE), ByteRange(98, 99, 4, FALSE),
                   ByteRange(100, 100, 6, TRUE), Match(TRUE)>>),
      Unanchored(<<ByteRange(97, 97, 4, TRUE), CaptureTo(6, FALSE),
                   ByteRange(100, 100, 8, TRUE), ByteRange(98, 99, 7, TRUE),
                   CaptureTo(4, TRUE), Match(TRUE)>>),
      Unanchored(<<CaptureTo(5, FALSE), ByteRange(98, 98, 7, TRUE),
                   ByteRange(97, 97, 6, TRUE), CaptureTo(7, TRUE), Match(TRUE)>>),
      Unanchored(<<CaptureTo(6, FALSE), ByteRange(98, 98, 9, FALSE),
                   ByteRange(99, 99, 8, TRUE), ByteRange(97, 97, 7, TRUE),
                   CaptureTo(9, TRUE), ByteRange(100, 100, 9, TRUE), Match(TRUE)>>),
      Unanchored(<<CaptureTo(5, FALSE), Match(TRUE), ByteRange(97, 97, 6, TRUE),
                   CaptureTo(3, TRUE)>>),
      Unanchored(<<ByteRange(97, 97, 4, TRUE), EmptyWidth({"kEmptyWordBoundary"}, 5, TRUE),
                   Match(TRUE)>>),
      Unanchored(<<Match(TRUE)>>),
      [start |-> 0, insts |-> <<Fail>>],
      Unanchored(<<ByteRange(98, 98, 8, FALSE), NopTo(5, TRUE), ByteRange(97, 97, 6, TRUE),
                   NopTo(5, FALSE), NopTo(8, TRUE), Match(TRUE)>>),
      Unanchored(<<ByteRange(10, 10, 4, TRUE), Match(TRUE)>>),
      Unanchored(<<EmptyWidth({"kEmptyBeginLine"}, 4, TRUE), ByteRange(97, 97, 5, TRUE),
                   EmptyWidth({"kEmptyEndLine"}, 6, TRUE), Match(TRUE)>>) }

\* The value the caller passes for epsilon.
EpsilonValues == {256}

\* ------------------------------------------------ the conversion, by step
InitRegex ==
    /\ pc = "idle"
    /\ overload = "none"
    /\ left_automata = <<>>
    /\ caller_left = <<>>
    /\ right_automaton = EmptyNfa
    /\ include_empty = FALSE
    /\ params = NoParams
    /\ epsilon = 0
    /\ concatenated_left_side = EmptyNfa
    /\ product_pres_eps_trans = EmptyNfa
    /\ trimmed_product = EmptyNfa
    /\ noodles = <<>>
    /\ rpc = "call"
    /\ prog \in Progs
    /\ use_epsilon \in BOOLEAN
    /\ epsilon_value \in EpsilonValues
    /\ state_cache = <<>>
    /\ explicit_nfa = EmptyNfa
    /\ copyEdgesFromTo = <<>>
    /\ copy_pos = 0
    /\ outgoingEdges = <<>>
    /\ current_state = 0
    /\ output_nfa = EmptyNfa
    /\ MappedIdle

\* create_state_cache, with epsilon.
CreateStateCacheWithEpsilon ==
    /\ rpc = "call" /\ use_epsilon
    /\ state_cache' = create_state_cache_with_epsilon(prog)
    /\ rpc' = "cached"
    /\ UNCHANGED <<mapped_vars, noodle_vars, prog, use_epsilon, epsilon_value, explicit_nfa,
                   copyEdgesFromTo, copy_pos, outgoingEdges, current_state, output_nfa>>

\* create_state_cache, without epsilon.
CreateStateCacheWithoutEpsilon ==
    /\ rpc = "call" /\ ~use_epsilon
    /\ state_cache' = create_state_cache_without_epsilon(prog)
    /\ rpc' = "cached"
    /\ UNCHANGED <<mapped_vars, noodle_vars, prog, use_epsilon, epsilon_value, explicit_nfa,
                   copyEdgesFromTo, copy_pos, outgoingEdges, current_state, output_nfa>>

\* Before the sweep: the first state mapped to the start state becomes the
\* initial state and gets its incoming-edge mark; a start state that is a Nop
\* or a Capture and is not last queues its pairs.
MakeInitial ==
    /\ rpc = "cached"
    /\ LET start_state == prog.start
           initial == state_cache.state_mapping[start_state][1]
       IN  /\ explicit_nfa' = Nfa(prog_size(prog), {initial}, {}, {})
           /\ state_cache' = [state_cache EXCEPT !.has_state_incoming_edge[initial] = TRUE]
           /\ copyEdgesFromTo' =
                 IF state_cache.is_state_nop_or_cap[start_state]
                        /\ ~state_cache.is_last[start_state]
                 THEN StartPairs(state_cache, start_state, 2) ELSE <<>>
           /\ copy_pos' = Len(copyEdgesFromTo')
           /\ outgoingEdges' = Vec(prog_size(prog), <<>>)
           /\ current_state' = start_state
    /\ rpc' = "sweep"
    /\ UNCHANGED <<mapped_vars, noodle_vars, prog, use_epsilon, epsilon_value, output_nfa>>

\* One turn of the sweep over the program counters, for current_state.
VisitInst ==
    /\ rpc = "sweep"
    /\ current_state < prog_size(prog)
    /\ LET i      == inst(prog, current_state)
           marked == IF state_cache.is_final_state[current_state]
                     THEN make_state_final(current_state, explicit_nfa, state_cache)
                     ELSE explicit_nfa
           acc    == [outgoingEdges |-> outgoingEdges,
                      has_state_incoming_edge |-> state_cache.has_state_incoming_edge,
                      trans |-> marked.trans]
           done   == IF EmitsTransitions(i.opcode, use_epsilon)
                     THEN create_explicit_nfa_transitions(
                              current_state, i, SymbolsOfInst(i, epsilon_value),
                              acc, state_cache, use_epsilon, epsilon_value)
                     ELSE acc
       IN  /\ explicit_nfa' = [marked EXCEPT !.trans = done.trans]
           /\ state_cache' = [state_cache EXCEPT
                                 !.has_state_incoming_edge = done.has_state_incoming_edge]
           /\ outgoingEdges' = done.outgoingEdges
           /\ copyEdgesFromTo' =
                 copyEdgesFromTo \o QueuedPairs(current_state, i, state_cache, use_epsilon)
           /\ copy_pos' = Len(copyEdgesFromTo')
    /\ current_state' = current_state + 1
    /\ UNCHANGED <<mapped_vars, noodle_vars, rpc, prog, use_epsilon, epsilon_value, output_nfa>>

\* The back-propagation of one queued pair <<first, second>>, the last one
\* not handled yet: a Match as first makes second final; otherwise second is
\* final if first is, and gets the outgoing edges saved for first (as
\* transitions only if it has an incoming edge).
BackPropagate ==
    /\ rpc = "sweep"
    /\ current_state >= prog_size(prog)
    /\ ~use_epsilon
    /\ copy_pos > 0
    /\ LET first   == copyEdgesFromTo[copy_pos][1]
           second  == copyEdgesFromTo[copy_pos][2]
           isMatch == inst(prog, first).opcode = "kInstMatch"
           final   == isMatch \/ state_cache.is_final_state[first]
           marked  == IF final THEN make_state_final(second, explicit_nfa, state_cache)
                      ELSE explicit_nfa
           edges   == IF isMatch THEN <<>> ELSE outgoingEdges[first]
       IN  /\ explicit_nfa' =
                 IF state_cache.has_state_incoming_edge[second]
                 THEN [marked EXCEPT !.trans =
                          @ \cup {<<second, edges[j][1], edges[j][2]>> : j \in DOMAIN edges}]
                 ELSE marked
           /\ state_cache' =
                 IF final THEN [state_cache EXCEPT !.is_final_state[second] = TRUE]
                 ELSE state_cache
           /\ outgoingEdges' = [outgoingEdges EXCEPT ![second] = @ \o edges]
    /\ copy_pos' = copy_pos - 1
    /\ UNCHANGED <<mapped_vars, noodle_vars, rpc, prog, use_epsilon, epsilon_value, copyEdgesFromTo,
                   current_state, output_nfa>>

\* renumber_states, into the NFA of the caller.
RenumberStates ==
    /\ rpc = "sweep"
    /\ current_state >= prog_size(prog)
    /\ use_epsilon \/ copy_pos = 0
    /\ output_nfa' = renumber_states(prog_size(prog), explicit_nfa)
    /\ rpc' = "done"
    /\ UNCHANGED <<mapped_vars, noodle_vars, prog, use_epsilon, epsilon_value, state_cache, explicit_nfa,
                   copyEdgesFromTo, copy_pos, outgoingEdges, current_state>>

NextRegex ==
    \/ CreateStateCacheWithEpsilon
    \/ CreateStateCacheWithoutEpsilon
    \/ MakeInitial
    \/ VisitInst
    \/ BackPropagate
    \/ RenumberStates

SpecRegex == InitRegex /\ [][NextRegex]_vars

\* ------------------------------------------- get_mapped_states, by turn
\* Mutant: a state is pushed unless it is on the stack already.
PushUnchecked_NotOnStack(stack, checked, state) ==
    IF state \notin SeqRange(stack) THEN Append(stack, state) ELSE stack

\* A state is pushed on statesToCheck only if it is not in checkedStates.
PushUnchecked(stack, checked, state) ==
    IF state \notin checked THEN Append(stack, state) ELSE stack

\* One turn of the loop of get_mapped_states, on the locals in the record l.
MappedStatesTurn(p, l) ==
    LET state   == l.statesToCheck[Len(l.statesToCheck)]
        i       == inst(p, state)
        checked == l.checkedStates \cup {state}
        popped  == SubSeq(l.statesToCheck, 1, Len(l.statesToCheck) - 1)
    IN  IF i.last /\ ~IsNopOrCapture(i.opcode)
        THEN [l EXCEPT !.statesToCheck = popped,
                       !.checkedStates = checked,
                       !.mappedStates = Append(@, state)]
        ELSE LET withNext == IF ~i.last THEN PushUnchecked(popped, checked, state + 1)
                             ELSE popped
                 outIsEps == IsNopOrCapture(inst(p, i.out).opcode)
             IN  [statesToCheck |-> IF outIsEps THEN PushUnchecked(withNext, checked, i.out)
                                    ELSE withNext,
                  checkedStates |-> checked,
                  mappedStates  |-> IF outIsEps THEN l.mappedStates
                                    ELSE Append(l.mappedStates, i.out),
                  lastMarks     |-> IF ~i.last /\ inst(p, state + 1).last
                                    THEN l.lastMarks \cup {state + 1} ELSE l.lastMarks]

\* Programs whose Nop/Capture out-edges and implicit edges form a cycle: a
\* Nop to itself, last or not; two Nops to each other (the second is pushed
\* twice before it is checked); a Capture, a Nop and a Capture in a ring; the
\* loop of (|a)*, whose body matches the empty word; a ByteRange that is not
\* last, before a Nop back to it.
CyclicProgs ==
    { Unanchored(<<NopTo(3, TRUE)>>),
      Unanchored(<<NopTo(3, FALSE), Match(TRUE)>>),
      Unanchored(<<NopTo(4, FALSE), NopTo(3, TRUE)>>),
      Unanchored(<<CaptureTo(4, TRUE), NopTo(6, FALSE), Match(TRUE), CaptureTo(3, TRUE)>>),
      Unanchored(<<CaptureTo(5, FALSE), Match(TRUE), NopTo(7, FALSE),
                   ByteRange(97, 97, 7, TRUE), CaptureTo(3, TRUE)>>),
      Unanchored(<<ByteRange(97, 97, 3, FALSE), NopTo(3, FALSE), Match(TRUE)>>) }

MappedProgs == Progs \cup CyclicProgs

\* A call of get_mapped_states for some state of some program.
InitMapped ==
    /\ pc = "idle"
    /\ overload = "none"
    /\ left_automata = <<>>
    /\ caller_left = <<>>
    /\ right_automaton = EmptyNfa
    /\ include_empty = FALSE
    /\ params = NoParams
    /\ epsilon = 0
    /\ concatenated_left_side = EmptyNfa
    /\ product_pres_eps_trans = EmptyNfa
    /\ trimmed_product = EmptyNfa
    /\ noodles = <<>>
    /\ rpc = "get_mapped_states"
    /\ prog \in MappedProgs
    /\ use_epsilon = FALSE
    /\ epsilon_value = 0
    /\ state_cache = <<>>
    /\ explicit_nfa = EmptyNfa
    /\ copyEdgesFromTo = <<>>
    /\ copy_pos = 0
    /\ outgoingEdges = <<>>
    /\ current_state = 0
    /\ output_nfa = EmptyNfa
    /\ mapped_for \in 0 .. (prog_size(prog) - 1)
    /\ mapped_stack = <<mapped_for>>
    /\ mapped_checked = {}
    /\ mapped_result = <<>>
    /\ mapped_marks = {}

\* One turn of the while loop: statesToCheck is not empty.
GetMappedStatesTurn ==
    /\ rpc = "get_mapped_states"
    /\ mapped_stack # <<>>
    /\ LET l == MappedStatesTurn(prog, [statesToCheck |-> mapped_stack,
                                        checkedStates |-> mapped_checked,
                                        mappedStates  |-> mapped_result,
                                        lastMarks     |-> mapped_marks])
       IN  /\ mapped_stack' = l.statesToCheck
           /\ mapped_checked' = l.checkedStates
           /\ mapped_result' = l.mappedStates
           /\ mapped_marks' = l.lastMarks
    /\ UNCHANGED <<noodle_vars, regex_vars, mapped_for>>

\* statesToCheck is empty: the call returns mappedStates.
GetMappedStatesReturn ==
    /\ rpc = "get_mapped_states"
    /\ mapped_stack = <<>>
    /\ rpc' = "mapped"
    /\ UNCHANGED <<noodle_vars, mapped_vars, prog, use_epsilon, epsilon_value, state_cache,
                   explicit_nfa, copyEdgesFromTo, copy_pos, outgoingEdges, current_state,
                   output_nfa>>

NextMapped ==
    \/ GetMappedStatesTurn
    \/ GetMappedStatesReturn

\* The call runs on its own: a turn that can be taken is taken.
SpecMapped == InitMapped /\ [][NextMapped]_vars /\ WF_vars(NextMapped)

\* ---------------------------------------------------------------- languages
\* The states aut is in after reading w from the states S.
RECURSIVE Run(_, _, _)
Run(aut, S, w) ==
    IF w = <<>> THEN S
    ELSE Run(aut, {t[3] : t \in {u \in aut.trans : u[1] \in S /\ u[2] = Head(w)}}, Tail(w))

Accepts(aut, w) == Run(aut, aut.initialstates, w) \cap aut.finalstates # {}

\* The words of at most k symbols that aut accepts from state q.
RECURSIVE LangFrom(_, _, _)
LangFrom(aut, q, k) ==
    (IF q \in aut.finalstates THEN {<<>>} ELSE {})
      \cup (IF k = 0 THEN {}
            ELSE UNION {{<<t[2]>> \o w : w \in LangFrom(aut, t[3], k - 1)} :
                           t \in {u \in aut.trans : u[1] = q}})

LangUpTo(aut, k) == UNION {LangFrom(aut, q, k) : q \in aut.initialstates}

\* The language of aut, up to MaxWordLen symbols.
Lang(aut) == LangUpTo(aut, MaxWordLen)

\* w is in L(auts[i]) . ... . L(auts[Len(auts)]).
RECURSIVE InConcat(_, _, _)
InConcat(auts, i, w) ==
    IF i > Len(auts) THEN w = <<>>
    ELSE \E j \in 0 .. Len(w) :
            /\ Accepts(auts[i], SubSeq(w, 1, j))
            /\ InConcat(auts, i + 1, SubSeq(w, j + 1, Len(w)))

\* The concatenations wi ... wm of words of Lang(noodle[i]), ..., Lang(noodle[m]).
RECURSIVE ConcatLang(_, _)
ConcatLang(noodle, i) ==
    IF i > Len(noodle) THEN {<<>>}
    ELSE {w \o v : w \in Lang(noodle[i]), v \in ConcatLang(noodle, i + 1)}


\* ------------------------------------------------------------------ claims
Called == overload \in {"ref", "ptr"}

\* The tuples <<wi, ..., wm>> of words of Lang(auts[i]), ..., Lang(auts[m]).
RECURSIVE WordTuples(_, _)
WordTuples(auts, i) ==
    IF i > Len(auts) THEN {<<>>}
    ELSE {<<w>> \o t : w \in Lang(auts[i]), t \in WordTuples(auts, i + 1)}

RECURSIVE Flatten(_)
Flatten(ws) == IF ws = <<>> THEN <<>> ELSE Head(ws) \o Flatten(Tail(ws))

\* The solutions of the equation: one word of every left automaton (as the
\* caller passed them), their concatenation accepted by the right automaton.
Solutions ==
    {ws \in WordTuples(caller_left, 1) : Accepts(right_automaton, Flatten(ws))}

\* C1. Noodle soundness: every noodle noodlify_for_equation returns has as
\* many entries as the left-hand side has automata, and every concatenation of
\* words of its entries is in L(RHS) and in L(L1)...L(Lm).
C1_NoodleSoundness ==
    (Called /\ pc = "done" /\ Len(caller_left) >= 1) =>
        \A n \in DOMAIN noodles :
            /\ Len(noodles[n]) = Len(caller_left)
            /\ \A w \in ConcatLang(noodles[n], 1) :
                  /\ Accepts(right_automaton, w)
                  /\ InConcat(caller_left, 1, w)

\* A call that returned several noodles of non-empty languages for a left
\* side of several automata.
C1_Witness ==
    /\ Called /\ pc = "done"
    /\ Len(caller_left) >= 2
    /\ Len(noodles) >= 2
    /\ \A n \in DOMAIN noodles : ConcatLang(noodles[n], 1) # {}

\* C2. Noodle completeness: for every solution w1 ... wm of the equation
\* (also with include_empty = false and with empty words among the wi) some
\* returned noodle has wi in L(Ni) for every i.
C2_NoodleCompleteness ==
    (Called /\ pc = "done" /\ Len(caller_left) >= 1) =>
        \A ws \in Solutions :
            \E n \in DOMAIN noodles :
                /\ Len(noodles[n]) = Len(ws)
                /\ \A i \in DOMAIN ws : Accepts(noodles[n][i], ws[i])

\* A call with include_empty = false whose equation has a solution with an
\* empty word and a solution without one.
C2_Witness ==
    /\ Called /\ pc = "done"
    /\ ~include_empty
    /\ Len(caller_left) >= 2
    /\ \E ws \in Solutions : \E i \in DOMAIN ws : ws[i] = <<>>
    /\ \E ws \in Solutions : \A i \in DOMAIN ws : ws[i] # <<>>

C4_InputsUnchanged ==
    (Called /\ pc = "done") => left_automata = caller_left

\* The epsilon-transitions of an automaton.
EpsilonTransitions(aut, eps) == {t \in aut.trans : t[2] = eps}

\* C5. At the concatenation every left automaton has exactly one initial and
\* exactly one final state, so every join adds exactly one epsilon-transition.
C5_UnifiedAtConcatenation ==
    (Called /\ pc = "concatenated") =>
        /\ \A i \in DOMAIN left_automata :
              /\ Cardinality(left_automata[i].initialstates) = 1
              /\ Cardinality(left_automata[i].finalstates) = 1
        /\ Cardinality(EpsilonTransitions(concatenated_left_side, epsilon))
              = Len(left_automata) - 1

\* What the specification of the reductions asks for, written out per value.
ExpectedReduction(p, aut) ==
    IF "reduce" \notin DOMAIN p THEN aut
    ELSE CASE p["reduce"] = "forward" -> reduce(aut)
           [] p["reduce"] = "backward" -> revert(reduce(revert(aut)))
           [] p["reduce"] = "bidirectional" ->
                 revert(reduce(revert(reduce(aut))))
           [] OTHER -> aut

\* Long enough for every word of a product: MaxWordLen symbols and one
\* epsilon per join.
ProductWordLen == MaxWordLen + MaxLhs

\* C6. Reduction dispatch: the automaton passed to noodlify is the trimmed
\* product reduced as params["reduce"] says (forward, backward, forward then
\* backward, or not at all), and it has the language of the trimmed product
\* over the alphabet with epsilon.
C6_ReductionDispatch ==
    (Called /\ pc = "reduced") =>
        /\ product_pres_eps_trans = ExpectedReduction(params, trimmed_product)
        /\ LangUpTo(product_pres_eps_trans, ProductWordLen)
              = LangUpTo(trimmed_product, ProductWordLen)

\* A bidirectional reduction that merged states.
C6_Witness ==
    /\ Called /\ pc = "reduced"
    /\ haskey(params, "reduce") /\ params["reduce"] = "bidirectional"
    /\ product_pres_eps_trans.n < trimmed_product.n
    /\ reduce(trimmed_product).n < trimmed_product.n

\* C7. An equation without solution gets the empty sequence, with
\* include_empty too.
C7_NoSolutionNoNoodle ==
    (Called /\ pc = "done" /\ Len(caller_left) >= 1 /\ Solutions = {}) =>
        noodles = <<>>

\* A call with include_empty whose sides all have non-empty languages, whose
\* equation has no solution, and which went as far as the product.
C7_Witness ==
    /\ Called /\ pc = "done"
    /\ include_empty
    /\ Len(caller_left) >= 2
    /\ ~is_lang_empty(right_automaton)
    /\ \A i \in DOMAIN caller_left : ~is_lang_empty(caller_left[i])
    /\ Solutions = {}
    /\ concatenated_left_side # EmptyNfa

Direct == overload = "none"

\* C8. noodlify on an automaton of one segment (as is every automaton without
\* epsilon-transition): the only noodle is the trimmed automaton if that has a
\* state or include_empty; no noodle otherwise.
C8_SingleSegment ==
    (Direct /\ pc = "done") =>
        LET aut  == product_pres_eps_trans
            segs == get_untrimmed_segments(aut, epsilon)
        IN  /\ (EpsilonTransitions(aut, epsilon) = {}) => Len(segs) = 1
            /\ (Len(segs) = 1) =>
                  noodles = IF trim(aut).n > 0 \/ include_empty
                            THEN << <<trim(aut)>> >> ELSE <<>>

\* A direct call on an automaton of one segment and empty language, with
\* include_empty.
C8_Witness ==
    /\ Direct /\ pc = "done"
    /\ Len(get_untrimmed_segments(product_pres_eps_trans, epsilon)) = 1
    /\ trim(product_pres_eps_trans).n = 0
    /\ include_empty
    /\ Len(noodles) = 1

\* The product of a single left automaton (as it is at the concatenation)
\* with the right side, trimmed.
SingleProduct ==
    trim(intersection_over_epsilon(left_automata[1], right_automaton, epsilon))

SingleHasSolution == Lang(caller_left[1]) \cap Lang(right_automaton) # {}

\* C9 as stated: for a single left automaton the only noodle holds the
\* trimmed product itself.
C9_TrimmedCopy ==
    (Called /\ pc = "done" /\ Len(caller_left) = 1) =>
        IF SingleHasSolution
        THEN /\ Len(noodles) = 1
             /\ Len(noodles[1]) = 1
             /\ noodles[1][1] = SingleProduct
             /\ Lang(noodles[1][1]) = Lang(caller_left[1]) \cap Lang(right_automaton)
        ELSE noodles = <<>>

\* C9, amended. For a single left automaton L1 with L(L1) and L(RHS)
\* intersecting, the result is exactly one noodle of length 1, of language
\* L(L1) /\ L(RHS), whose automaton is the trimmed product with the reductions
\* of params["reduce"] applied (the trimmed product itself when there is
\* none); without a common word the result is the empty sequence.
C9_SingleAutomaton ==
    (Called /\ pc = "done" /\ Len(caller_left) = 1) =>
        IF SingleHasSolution
        THEN /\ Len(noodles) = 1
             /\ Len(noodles[1]) = 1
             /\ noodles[1][1] = trim(ExpectedReduction(params, SingleProduct))
             /\ (~haskey(params, "reduce") => noodles[1][1] = SingleProduct)
             /\ Lang(noodles[1][1]) = Lang(caller_left[1]) \cap Lang(right_automaton)
        ELSE noodles = <<>>

\* A call with a single left automaton and a reduction whose only noodle is
\* smaller than the trimmed product.
C9_Witness ==
    /\ Called /\ pc = "done" /\ Len(caller_left) = 1
    /\ Len(noodles) = 1
    /\ noodles[1][1].n > 0
    /\ noodles[1][1].n < SingleProduct.n

\* The pairs of a reachable final state of A and an initial state of B whose
\* instances noodlify keeps.
JoinPairs(A, B, ie) ==
    {fi \in (A.finalstates \cap ReachFwd(A.trans, A.initialstates)) \X B.initialstates :
        ie \/ ~is_lang_empty([B EXCEPT !.initialstates = {fi[2]}])}

\* C10 as stated: noodlify on the concatenation of A and B, both of non-empty
\* language, returns a single noodle [A', B'] with L(A') = L(A), L(B') = L(B).
C10_SingleNoodle ==
    (/\ Direct /\ pc = "done" /\ Len(caller_left) = 2
     /\ ~is_lang_empty(caller_left[1]) /\ ~is_lang_empty(caller_left[2])) =>
        /\ Len(noodles) = 1
        /\ Len(noodles[1]) = 2
        /\ Lang(noodles[1][1]) = Lang(caller_left[1])
        /\ Lang(noodles[1][2]) = Lang(caller_left[2])

\* C10, amended. noodlify on the concatenation of A and B, both of non-empty
\* language, returns one noodle per pair of a reachable final state f of A and
\* an initial state i of B (with include_empty = false: of those i from which
\* B accepts a word): A trimmed with f as its only final state, B trimmed with
\* i as its only initial state.  With one final state of A and one initial
\* state of B that is a single noodle [A', B'], L(A') = L(A), L(B') = L(B).
C10_NoodlePerJoin ==
    (/\ Direct /\ pc = "done" /\ Len(caller_left) = 2
     /\ ~is_lang_empty(caller_left[1]) /\ ~is_lang_empty(caller_left[2])) =>
        LET A == caller_left[1]
            B == caller_left[2]
            pairs == JoinPairs(A, B, include_empty)
        IN  /\ Len(noodles) = Cardinality(pairs)
            /\ SeqRange(noodles) =
                  {<<trim([A EXCEPT !.finalstates = {fi[1]}]),
                     trim([B EXCEPT !.initialstates = {fi[2]}])>> : fi \in pairs}
            /\ (Cardinality(A.finalstates) = 1 /\ Cardinality(B.initialstates) = 1) =>
                  /\ Len(noodles) = 1
                  /\ Lang(noodles[1][1]) = Lang(A)
                  /\ Lang(noodles[1][2]) = Lang(B)

\* A direct call on the concatenation of two automata with two final and two
\* initial states: four noodles.
C10_Witness ==
    /\ Direct /\ pc = "done" /\ Len(caller_left) = 2
    /\ Cardinality(caller_left[1].finalstates) = 2
    /\ Cardinality(caller_left[2].initialstates) = 2
    /\ Len(noodles) = 4


\* The states an NFA uses: its initial and final states and the endpoints of
\* its transitions.
UsedStates(aut) ==
    aut.initialstates \cup aut.finalstates
        \cup {t[1] : t \in aut.trans} \cup {t[3] : t \in aut.trans}

\* ------------------------------------------- claims on noodlify's enumeration
\* The automaton noodlify is called on, its depths and its segments.
NoodlifiedAut == product_pres_eps_trans
NoodlifiedDepths == get_epsilon_depths(NoodlifiedAut, epsilon)
NoodlifiedSegments == get_untrimmed_segments(NoodlifiedAut, epsilon)

\* The assignments E0 x ... x E(k-1): one epsilon-transition of every depth.
Assignments(depths) ==
    {a \in [DOMAIN depths -> UNION {SeqRange(depths[d]) : d \in DOMAIN depths}] :
        \A d \in DOMAIN depths : a[d] \in SeqRange(depths[d])}

\* The noodle an assignment stands for: segment i restricted to the target of
\* the transition before it and to the source of the transition after it (the
\* first segment keeps its initial states, the last its final states), trimmed.
AssignmentNoodle(segments, a) ==
    LET k == Len(a)
    IN  [i \in 1 .. (k + 1) |->
            trim([segments[i] EXCEPT
                    !.initialstates = IF i = 1 THEN @ ELSE {a[i - 1][3]},
                    !.finalstates   = IF i = k + 1 THEN @ ELSE {a[i][1]}])]

\* The product of the sizes of the depths.
RECURSIVE NumAssignments(_, _)
NumAssignments(depths, d) ==
    IF d > Len(depths) THEN 1 ELSE Len(depths[d]) * NumAssignments(depths, d + 1)

\* C11. With include_empty = true and more than one segment noodlify skips no
\* assignment: it returns exactly N = |E0| * ... * |E(k-1)| noodles, and every
\* assignment of E0 x ... x E(k-1) has its noodle in the result, also when an
\* instance of the noodle has no state left after trimming.
C11_NoAssignmentSkipped ==
    (Direct /\ pc = "done" /\ include_empty /\ Len(NoodlifiedSegments) > 1) =>
        /\ Len(noodles) = NumAssignments(NoodlifiedDepths, 1)
        /\ Len(noodles) = Cardinality(Assignments(NoodlifiedDepths))
        /\ \A a \in Assignments(NoodlifiedDepths) :
              \E n \in DOMAIN noodles :
                  noodles[n] = AssignmentNoodle(NoodlifiedSegments, a)

\* A direct call with include_empty on three segments that returned a noodle
\* whose middle instance has no state and a noodle whose last instance has
\* no state.
C11_Witness ==
    /\ Direct /\ pc = "done" /\ include_empty
    /\ Len(NoodlifiedSegments) = 3
    /\ Len(noodles) >= 4
    /\ \E n \in DOMAIN noodles : noodles[n][2].n = 0
    /\ \E n \in DOMAIN noodles : noodles[n][3].n = 0 /\ noodles[n][2].n > 0

\* |E0| * ... * |E(d-1)|: the weight of depth d in the index.
RECURSIVE RadixBelow(_, _)
RadixBelow(depths, d) ==
    IF d <= 1 THEN 1 ELSE Len(depths[d - 1]) * RadixBelow(depths, d - 1)

\* The assignment of index i: at depth d the transition
\* E_d[(i / (|E0| * ... * |E(d-1)|)) mod |E_d|].
IndexAssignment(depths, i) ==
    [d \in DOMAIN depths |->
        depths[d][((i \div RadixBelow(depths, d)) % Len(depths[d])) + 1]]

\* The noodles of all indices 0 .. N-1, in ascending order of the index.
IndexedNoodles(segments, depths) ==
    [j \in 1 .. NumAssignments(depths, 1) |->
        AssignmentNoodle(segments, IndexAssignment(depths, j - 1))]

NoInstanceEmpty(noodle) == \A j \in DOMAIN noodle : noodle[j].n > 0

\* C14. The enumeration is the mixed-radix decoding of the index: index i
\* stands for the assignment with E_d[(i / (|E0|...|E(d-1)|)) mod |E_d|] at
\* depth d, the indices 0 .. N-1 stand for the assignments of E0 x ... x
\* E(k-1) one to one, and the result holds the noodles emitted in ascending
\* order of their index.
C14_MixedRadixOrder ==
    (Direct /\ pc = "done" /\ Len(NoodlifiedSegments) > 1) =>
        LET depths == NoodlifiedDepths
            N      == NumAssignments(depths, 1)
            byIdx  == {IndexAssignment(depths, i) : i \in 0 .. (N - 1)}
        IN  /\ byIdx = Assignments(depths)
            /\ Cardinality(byIdx) = N
            /\ noodles = SelectSeq(IndexedNoodles(NoodlifiedSegments, depths),
                                   LAMBDA nd : include_empty \/ NoInstanceEmpty(nd))

\* A direct call on two depths of several transitions each, without
\* include_empty, that emitted some noodles and skipped others.
C14_Witness ==
    /\ Direct /\ pc = "done" /\ ~include_empty
    /\ Len(NoodlifiedDepths) = 2
    /\ Len(NoodlifiedDepths[1]) >= 2
    /\ Len(NoodlifiedDepths[2]) >= 3
    /\ Len(noodles) >= 2
    /\ Len(noodles) < NumAssignments(NoodlifiedDepths, 1)

\* The languages of the instances an assignment needs are all non-empty.
AllInstancesNonEmpty(segments, a) ==
    \A i \in 1 .. (Len(a) + 1) :
        ~is_lang_empty([segments[i] EXCEPT
                          !.initialstates = IF i = 1 THEN @ ELSE {a[i - 1][3]},
                          !.finalstates   = IF i = Len(a) + 1 THEN @ ELSE {a[i][1]}])

\* C15. With include_empty = false the noodle of an assignment is in the
\* result if and only if every instance it needs has a non-empty language;
\* the result has one noodle per such assignment, every noodle has all its
\* k+1 entries and no entry has zero states.
C15_EmittedIffAllNonEmpty ==
    (Direct /\ pc = "done" /\ ~include_empty /\ Len(NoodlifiedSegments) > 1) =>
        LET segs   == NoodlifiedSegments
            depths == NoodlifiedDepths
        IN  /\ \A a \in Assignments(depths) :
                  (\E n \in DOMAIN noodles : noodles[n] = AssignmentNoodle(segs, a))
                     <=> AllInstancesNonEmpty(segs, a)
            /\ Len(noodles) =
                  Cardinality({a \in Assignments(depths) : AllInstancesNonEmpty(segs, a)})
            /\ \A n \in DOMAIN noodles :
                  /\ Len(noodles[n]) = Len(segs)
                  /\ NoInstanceEmpty(noodles[n])

\* A direct call without include_empty on three segments: an assignment whose
\* middle instance is empty was skipped, another one whose last instance is
\* empty too, and some noodle was emitted.
C15_Witness ==
    /\ Direct /\ pc = "done" /\ ~include_empty
    /\ Len(NoodlifiedSegments) = 3
    /\ Len(noodles) >= 1
    /\ \E a \in Assignments(NoodlifiedDepths) :
          AssignmentNoodle(NoodlifiedSegments, a)[2].n = 0
    /\ \E a \in Assignments(NoodlifiedDepths) :
          /\ AssignmentNoodle(NoodlifiedSegments, a)[2].n > 0
          /\ AssignmentNoodle(NoodlifiedSegments, a)[3].n = 0

\* C16. Every noodle of a segmentation with k >= 1 depths has k+1 entries in
\* segment order and is the noodle of some assignment (e0, ..., e(k-1)): entry
\* 0 is segment 0 with its initial states and the single final state e0.src,
\* entry i segment i from e(i-1).tgt to e(i).src, entry k the last segment
\* from e(k-1).tgt with its final states; every entry is trimmed.
C16_NoodleEntries ==
    (Direct /\ pc = "done" /\ Len(NoodlifiedSegments) > 1) =>
        LET segs   == NoodlifiedSegments
            depths == NoodlifiedDepths
            k      == Len(depths)
        IN  \A n \in DOMAIN noodles :
                /\ Len(noodles[n]) = k + 1
                /\ \E a \in Assignments(depths) : noodles[n] = AssignmentNoodle(segs, a)
                /\ \A i \in 1 .. (k + 1) :
                      /\ trim(noodles[n][i]) = noodles[n][i]
                      /\ i > 1 => Cardinality(noodles[n][i].initialstates) <= 1
                      /\ i < k + 1 => Cardinality(noodles[n][i].finalstates) <= 1

\* A direct call on three segments that returned several noodles, one of them
\* with entries of several states each: the first with one final state and
\* the middle one from one initial to one final state.
C16_Witness ==
    /\ Direct /\ pc = "done"
    /\ Len(NoodlifiedSegments) = 3
    /\ Len(noodles) >= 2
    /\ \E n \in DOMAIN noodles :
          /\ noodles[n][1].n >= 2
          /\ Cardinality(noodles[n][1].finalstates) = 1
          /\ noodles[n][2].n >= 2
          /\ Cardinality(noodles[n][2].initialstates) = 1
          /\ Cardinality(noodles[n][2].finalstates) = 1
          /\ noodles[n][3].n > 0

MaxRegexWordLen == 6

\* The letters a .. d, the symbols of the programs.
RegexSigma == 97 .. 100

\* The program counters a thread at a counter of S is at without consuming:
\* the next counter of an instruction that is not last, the out of a Nop or a
\* Capture.
RECURSIVE ProgClosure(_, _)
ProgClosure(p, S) ==
    LET nxt == S \cup {s + 1 : s \in {x \in S : ~inst(p, x).last}}
                 \cup {inst(p, s).out : s \in {x \in S : IsNopOrCapture(inst(p, x).opcode)}}
    IN  IF nxt = S THEN S ELSE ProgClosure(p, nxt)

\* The counters after the ByteRange instructions at S consume the symbol a.
ProgStep(p, S, a) ==
    ProgClosure(p, {inst(p, s).out :
                       s \in {x \in S : /\ inst(p, x).opcode = "kInstByteRange"
                                        /\ inst(p, x).lo <= a /\ a <= inst(p, x).hi}})

ProgAccepting(p, S) == \E s \in S : inst(p, s).opcode = "kInstMatch"

\* The pairs <<counters of the program, states of the NFA>> that the words of
\* at most k symbols lead to, from the pairs of `frontier` on.
RECURSIVE Configs(_, _, _, _, _)
Configs(p, aut, frontier, seen, k) ==
    IF k = 0 \/ frontier = {} THEN seen \cup frontier
    ELSE LET known == seen \cup frontier
             nxt   == {<<ProgStep(p, c[1], a),
                         {t[3] : t \in {u \in aut.trans : u[1] \in c[2] /\ u[2] = a}}>> :
                          c \in frontier, a \in RegexSigma}
         IN  Configs(p, aut, nxt \ known, known, k - 1)

\* The program and the NFA accept the same words of at most k symbols.
SameLanguage(p, aut, k) ==
    \A c \in Configs(p, aut, {<<ProgClosure(p, {p.start}), aut.initialstates>>}, {}, k) :
        ProgAccepting(p, c[1]) <=> (c[2] \cap aut.finalstates # {})

HasOpcode(p, opcode) == \E j \in DOMAIN p.insts : p.insts[j].opcode = opcode

\* C12. Without epsilon-transitions the NFA handed to the caller accepts
\* exactly the words (of at most MaxRegexWordLen symbols) that the program
\* accepts, for every program without EmptyWidth instruction.
C12_LanguagePreservedWithoutEpsilon ==
    (rpc = "done" /\ ~use_epsilon /\ ~HasOpcode(prog, "kInstEmptyWidth")) =>
        SameLanguage(prog, output_nfa, MaxRegexWordLen)

\* C13. With epsilon-transitions, when the sweep is over: every program
\* counter is mapped to itself, a Match is final, a ByteRange has its
\* transitions to out, a Nop or Capture its epsilon-edge to out, and every
\* instruction that is not last its epsilon-edge to the next counter.
C13_EveryInstructionEmitted ==
    (rpc = "done" /\ use_epsilon) =>
        \A s \in 0 .. (prog_size(prog) - 1) :
            LET i == inst(prog, s)
            IN  /\ state_cache.state_mapping[s] = <<s>>
                /\ (i.opcode = "kInstMatch") => s \in explicit_nfa.finalstates
                /\ (i.opcode = "kInstByteRange") =>
                      \A a \in i.lo .. i.hi : <<s, a, i.out>> \in explicit_nfa.trans
                /\ IsNopOrCapture(i.opcode) =>
                      <<s, epsilon_value, i.out>> \in explicit_nfa.trans
                /\ ~i.last => <<s, epsilon_value, s + 1>> \in explicit_nfa.trans


\* The states that are neither Nop/Capture nor Match among those a chain of
\* implicit epsilon-edges and Nop/Capture out-edges leads to from pc.
EpsilonChainTerminals(p, state) ==
    {s \in ProgClosure(p, {state}) :
        ~IsNopOrCapture(inst(p, s).opcode) /\ inst(p, s).opcode # "kInstMatch"}

\* C18. Without epsilon-transitions the mapping of every Nop or Capture is
\* exactly the set of states that are neither Nop/Capture nor Match and that
\* implicit epsilon-edges and Nop/Capture out-edges lead to: no state behind
\* the out-edge of a ByteRange only, and every ByteRange of the chain that is
\* not last.
C18_MappedStatesAreClosure ==
    (rpc \in {"cached", "sweep", "done"} /\ ~use_epsilon) =>
        \A s \in prog.start .. (prog_size(prog) - 1) :
            IsNopOrCapture(inst(prog, s).opcode) =>
                SeqRange(state_cache.state_mapping[s]) = EpsilonChainTerminals(prog, s)


\* C19. The NFA renumber_states produces has the states 0 .. n'-1: its initial
\* and final states and the endpoints of its transitions are below n' (the
\* initial state too, whatever the start state is), different used states of
\* the input have different new ids, and (s, a, t) is a transition of the
\* input if and only if (r(s), a, r(t)) is one of the output.
C19_RenumberedDense ==
    (rpc = "done") =>
        LET order == RenumberOrder(prog_size(prog), explicit_nfa)
            r(s)  == Renumbered(order, s)
            used  == UsedStates(explicit_nfa)
        IN  /\ UsedStates(output_nfa) \subseteq 0 .. (output_nfa.n - 1)
            /\ \A s, t \in used : s # t => r(s) # r(t)
            /\ \A s, t \in used : \A a \in {u[2] : u \in explicit_nfa.trans \cup output_nfa.trans} :
                  (<<s, a, t>> \in explicit_nfa.trans) <=> (<<r(s), a, r(t)>> \in output_nfa.trans)


\* pc -> pc+1 -> ... -> pc+j is a chain of implicit epsilon-edges: the
\* instructions at pc .. pc+j-1 are not last.
ImplicitChain(p, state, j) ==
    /\ state + j < prog_size(p)
    /\ \A m \in state .. (state + j - 1) : ~inst(p, m).last

\* A program counter that is a state of the NFA without epsilon-transitions:
\* a Nop or a Capture is replaced by the states it is mapped to.
IsNfaState(p, state) == ~IsNopOrCapture(inst(p, state).opcode)

\* C20. Without epsilon-transitions, when the queued pairs are all handled:
\* for every chain pc -> pc+1 -> ... -> pc+j of instructions that are not
\* last, the state pc carries every outgoing edge saved for pc+1, ..., pc+j,
\* and a state of the chain that is final or a Match makes every state of the
\* chain before it that has an incoming edge final.
C20_ChainsBackPropagated ==
    (rpc = "done" /\ ~use_epsilon) =>
        \A s \in prog.start .. (prog_size(prog) - 1) :
            \A j \in 1 .. prog_size(prog) :
                (ImplicitChain(prog, s, j) /\ IsNfaState(prog, s)) =>
                    /\ SeqRange(outgoingEdges[s + j]) \subseteq SeqRange(outgoingEdges[s])
                    /\ (\/ inst(prog, s + j).opcode = "kInstMatch"
                        \/ (s + j) \in explicit_nfa.finalstates) =>
                           \A u \in s .. (s + j - 1) :
                               (IsNfaState(prog, u) /\ state_cache.has_state_incoming_edge[u])
                                   => u \in explicit_nfa.finalstates


\* A state has an incoming edge in the NFA or is its initial state.
IsEntered(aut, state) ==
    state \in aut.initialstates \/ \E t \in aut.trans : t[3] = state

\* C21. Without epsilon-transitions, when the conversion is over: for every
\* ByteRange instruction pc, every state m mapped to pc that is entered in
\* the NFA has the transition m -a-> m' for every state m' mapped to the out
\* of the instruction and every a of lo .. hi, whenever m got its
\* incoming-edge mark.
C21_ByteRangeTransitionsComplete ==
    (rpc = "done" /\ ~use_epsilon) =>
        \A s \in prog.start .. (prog_size(prog) - 1) :
            LET i == inst(prog, s)
            IN  (i.opcode = "kInstByteRange") =>
                    \A m \in SeqRange(state_cache.state_mapping[s]) :
                        IsEntered(explicit_nfa, m) =>
                            \A n \in SeqRange(state_cache.state_mapping[i.out]) :
                                \A a \in i.lo .. i.hi :
                                    <<m, a, n>> \in explicit_nfa.trans


\* The symbols that stand for the empty-width assertions ^, $, \A, \z, \b
\* and \B.
ReservedSymbols == {300, 10, 301, 302, 303, 304}

\* C22. When the conversion is over: an EmptyWidth instruction has, for each
\* flag of its mask, a transition to its out labelled with the flag's
\* reserved symbol, and (with epsilon-transitions, where its state has no
\* other edges) no transition with another label than these and epsilon;
\* conversely every transition labelled with a reserved symbol comes from an
\* EmptyWidth instruction with the flag of that symbol.
C22_EmptyWidthReservedSymbols ==
    (rpc = "done") =>
        /\ \A s \in prog.start .. (prog_size(prog) - 1) :
              LET i == inst(prog, s)
              IN  (i.opcode = "kInstEmptyWidth") =>
                      /\ \A m \in SeqRange(state_cache.state_mapping[s]) :
                            state_cache.has_state_incoming_edge[m] =>
                                \A n \in SeqRange(state_cache.state_mapping[i.out]) :
                                    \A a \in SeqRange(EmptyWidthSymbols(i.empty)) :
                                        <<m, a, n>> \in explicit_nfa.trans
                      /\ use_epsilon =>
                            \A t \in explicit_nfa.trans :
                                t[1] = s => t[2] \in ReservedSymbols \cup {epsilon_value}
        /\ \A t \in explicit_nfa.trans :
              t[2] \in ReservedSymbols =>
                  \E s \in prog.start .. (prog_size(prog) - 1) :
                      /\ inst(prog, s).opcode = "kInstEmptyWidth"
                      /\ t[2] \in SeqRange(EmptyWidthSymbols(inst(prog, s).empty))
                      /\ t[3] \in SeqRange(state_cache.state_mapping[inst(prog, s).out])


\* C24. A call of get_mapped_states returns, for every program and every
\* state it is called for, cycles of Nop/Capture out-edges and implicit edges
\* included: a state pushed on the work stack is unchecked when it is pushed,
\* and the stack becomes empty.
C24_GetMappedStatesTerminates ==
    /\ [][rpc = "get_mapped_states" =>
            \A j \in DOMAIN mapped_stack' :
                j >= Len(mapped_stack) => mapped_stack'[j] \notin mapped_checked']_vars
    /\ <>(rpc = "mapped")

\* A call has returned after it went round a cycle: a checked Nop or Capture
\* whose out, not above it, is checked too and leads back to it.
C24_Witness ==
    /\ rpc = "mapped"
    /\ Cardinality(mapped_checked) >= 3
    /\ \E s \in mapped_checked :
          /\ IsNopOrCapture(inst(prog, s).opcode)
          /\ inst(prog, s).out \in mapped_checked
          /\ inst(prog, s).out < s
          /\ s \in ProgClosure(prog, {inst(prog, s).out})

=============================================================================
